---- MODULE Spec2Model ----
(***************************************************************************)
(* Model of the groups API router (src/unnamed/part_000): the handlers     *)
(* groups.info, groups.create, groups.update, groups.delete,               *)
(* groups.add_user, groups.remove_user and the provisioning                *)
(* PATCH groups/:id.                                                       *)
(*                                                                         *)
(* State: the groups table, the group_users table (a bag of rows: nothing  *)
(* in the handlers prevents two rows for one pair), the append-only events *)
(* table, and one record per request being served.  A handler suspends at  *)
(* every await; one step of the model is the completion of the awaited     *)
(* storage call followed by the synchronous code up to the next await.     *)
(* Lookups in the users table, which no handler writes, are folded into    *)
(* the step that follows them.                                             *)
(***************************************************************************)
EXTENDS Integers, Sequences, FiniteSets, Bags, TLC

VARIABLES groups, memberships, events, env, reqs, started

vars == <<groups, memberships, events, env, reqs, started>>

(* ---------------------------- bounds ---------------------------------- *)

\* total number of requests served in one behaviour
MaxReqs == 2
\* group ids available (the first is seeded, the others are handed out by create)
MaxGroups == 2

\* requests in flight at once: two, which is what a race between two handlers takes
Slots == {1, 2}
GroupIds == 1 .. MaxGroups

(* ------------------------- the static world --------------------------- *)

NULL == "null"

\* rows of the users table: u1 is an admin of team T, u2 a member
Users == {"u1", "u2"}
Admins == {"u1"}
TeamOf(u) == "T"
NameOf(u) == IF u = "u1" THEN "n1" ELSE "n2"
EmailOf(u) == IF u = "u1" THEN "e1" ELSE "e2"
\* the address lists a provisioning request may carry (ex resolves to no user):
\* one resolved user and a stranger, two resolved users, a stranger alone
EmailLists == {{"e1", "ex"}, {"e1", "e2"}, {"ex"}}
\* process.env.DESK_UUID when it is set
DeskId == "desk"

\* the mutant of AuthorId: the variable is taken as it is
AuthorIdRaw(e) == e

\* process.env.DESK_UUID || null: unset and empty both give null
AuthorId(e) == IF e = NULL \/ e = "" THEN NULL ELSE e

\* the entry that stands for Operations[0] when the body has none
NoOperation == [op |-> NULL, value |-> {}, isArray |-> FALSE]

\* an Operations list of one entry whose value is an array of {email}
One(op, emails) == <<[op |-> op, value |-> emails, isArray |-> TRUE]>>

\* the mutant of Operations0: the last entry of the list is read
OperationsLast(ops) == IF Len(ops) = 0 THEN NoOperation ELSE ops[Len(ops)]

\* ctx.request.body?.["Operations"]?.[0]
Operations0(ops) == IF Len(ops) = 0 THEN NoOperation ELSE ops[1]

\* the mutant of MapThrows: a missing value counts as an empty array
MapThrowsNever(ops) == FALSE

\* arrayUsers.map(...) with arrayUsers the value of Operations[0], or null: a
\* TypeError when there is no array
MapThrows(ops) == ~Operations0(ops).isArray

SingleEntity == {"create", "update", "delete", "add_user", "remove_user"}

(* ----------------------------- helpers -------------------------------- *)

Row(g, u, c) == [groupId |-> g, userId |-> u, createdById |-> c]

\* what a lookup of a membership returns when there is none
NoRow == Row(0, NULL, NULL)

\* what a lookup of a group returns when there is none
NoHandle == [id |-> 0, name |-> NULL, dirty |-> {}]

\* the rows of ms for the pair (g, u), as a bag
PairBag(ms, g, u) ==
  [r \in {x \in BagToSet(ms) : x.groupId = g /\ x.userId = u} |-> ms[r]]

\* the rows of ms of group g, as a bag
GroupBag(ms, g) ==
  [r \in {x \in BagToSet(ms) : x.groupId = g} |-> ms[r]]

RowCount(ms, g, u) == BagCardinality(PairBag(ms, g, u))

\* the mutant of FindOne: the lookup finds no row
FindOneBlind(ms, g, u) == {NoRow}

\* GroupUser.findOne({where: {groupId, userId}}): the rows it may return
FindOne(ms, g, u) ==
  IF RowCount(ms, g, u) = 0 THEN {NoRow} ELSE BagToSet(PairBag(ms, g, u))

\* GroupUser.findOne({where: {groupId}})
FindOneOfGroup(ms, g) ==
  IF BagCardinality(GroupBag(ms, g)) = 0 THEN {NoRow} ELSE BagToSet(GroupBag(ms, g))

\* ms without the rows of bag b
Without(ms, b) == [r \in BagToSet(ms) \ BagToSet(b) |-> ms[r]]

\* the mutant of Missing: the test of the lookup always takes the add branch
MissingAlways(m) == TRUE

\* !membership
Missing(m) == m = NoRow

\* Group.findByPk(id) / Group.findOne({where: {id}}): a handle on the live row
\* (the table is paranoid: a destroyed row is not found), or null
Handle(gs, g) ==
  IF g \in GroupIds /\ gs[g].state = "live"
  THEN [id |-> g, name |-> gs[g].name, dirty |-> {}]
  ELSE NoHandle

\* group.name = name: the attribute is dirty when the value differs from the loaded one
SetName(h, n) == IF h.name = n THEN h ELSE [h EXCEPT !.name = n, !.dirty = {"name"}]

\* the mutant of Changed: the handle always counts as changed
ChangedAlways(h) == TRUE

\* group.changed(): the dirty attributes of the handle, false when there are
\* none.  Only an assignment to an attribute makes one dirty: $add and $remove
\* write rows of group_users and leave the handle as it was
Changed(h) == h.dirty # {}

\* group.save(): writes the dirty attributes of the handle to its row
Save(gs, h) ==
  IF "name" \in h.dirty
  THEN [gs EXCEPT ![h.id].name = h.name, ![h.id].updatedAt = @ + 1]
  ELSE gs

\* the mutant of AddAssoc: the members of the group are set to the user
AddAssocOnly(ms, g, u, c, cur) ==
  Without(ms, GroupBag(ms, g)) (+) SetToBag({Row(g, u, c)})

\* group.$add("user", user, {through: {createdById}}), second half: with the row
\* the association's own lookup found (cur), insert a row when there was none,
\* else bring the through attributes of the rows the pair has by now to the
\* given ones when the row found differs in them
AddAssoc(ms, g, u, c, cur) ==
  IF cur = NoRow
  THEN ms (+) SetToBag({Row(g, u, c)})
  ELSE IF cur.createdById = c \/ RowCount(ms, g, u) = 0
       THEN ms
       ELSE Without(ms, PairBag(ms, g, u))
              (+) [r \in {Row(g, u, c)} |-> RowCount(ms, g, u)]

\* the mutant of RemoveAssoc: the user is left out of the where clause
RemoveAssocOfGroup(ms, g, u) == Without(ms, GroupBag(ms, g))

\* group.$remove("user", user): destroys the rows of the pair
RemoveAssoc(ms, g, u) == Without(ms, PairBag(ms, g, u))

\* Event.create({...})
Ev(name, actor, g, u, dataName) ==
  [name |-> name, actorId |-> actor, teamId |-> "T", modelId |-> g,
   userId |-> u, data |-> dataName]

\* authorize(actor, action, subject), found telling whether the subject was
\* fetched: the policy layer.  An absent subject is NotFound, a denial Forbidden;
\* reading is open to the team, writing to its admins
Authorize(actor, action, found) ==
  IF ~found THEN "NotFound"
  ELSE IF action = "read" THEN "ok"
  ELSE IF actor \in Admins THEN "ok" ELSE "Forbidden"

\* the mutant of FindUser: every id finds a user
FindUserAny(u) == u

\* User.findByPk(userId)
FindUser(u) == IF u \in Users THEN u ELSE NULL

\* User.findAll({where: {email: [...]}})
Resolve(emails) == {u \in Users : EmailOf(u) \in emails}

(* ----------------------------- requests ------------------------------- *)

NoTasks == [u \in {} |-> NULL]

NoGroup == [state |-> "none", name |-> NULL, teamId |-> NULL,
            createdById |-> NULL, updatedAt |-> 0]

NoGroups == [g \in GroupIds |-> NoGroup]

NoBody == [name |-> NULL, teamId |-> NULL]

NoPrev == [kind |-> "none", actor |-> NULL, id |-> 0, userId |-> NULL, name |-> NULL,
           ops |-> << >>, op |-> NULL, emails |-> {}, status |-> NULL,
           m0 |-> EmptyBag, e0 |-> 0]

Idle == [kind |-> "none", pc |-> "idle", actor |-> NULL, id |-> 0, userId |-> NULL,
         name |-> NULL, ops |-> << >>, op |-> NULL, emails |-> {},
         status |-> NULL, body |-> NoBody, group |-> NoHandle,
         membership |-> NoRow, cur |-> NoRow,
         groupUsers |-> NoRow, users |-> {}, tasks |-> NoTasks,
         g0 |-> NoGroups, m0 |-> EmptyBag, e0 |-> 0, solo |-> FALSE, pred |-> NoPrev]

Active(r) == r.pc \notin {"idle", "done"}

\* the request ends: its locals are dropped, its arguments and outcome kept
Finish(r, st) ==
  [r EXCEPT !.pc = "done", !.status = st, !.group = NoHandle, !.membership = NoRow,
            !.cur = NoRow, !.groupUsers = NoRow, !.tasks = NoTasks]

\* what a later request remembers of the request that ended before it arrived
Summary(r) ==
  [kind |-> r.kind, actor |-> r.actor, id |-> r.id, userId |-> r.userId,
   name |-> r.name, ops |-> r.ops, op |-> r.op, emails |-> r.emails,
   status |-> r.status,
   m0 |-> r.m0, e0 |-> r.e0]

\* slot c's request goes on, or has ended, as record r
Put(c, r) == reqs' = [reqs EXCEPT ![c] = r]

Init ==
  /\ groups = [g \in GroupIds |->
                 IF g = 1
                 THEN [state |-> "live", name |-> "A", teamId |-> "T",
                       createdById |-> "u1", updatedAt |-> 0]
                 ELSE NoGroup]
  /\ memberships = EmptyBag
  /\ events = << >>
  /\ env \in {NULL, "", DeskId}
  /\ reqs = [c \in Slots |-> Idle]
  /\ started = 0

\* the request that ended last, when it ran with no other request in flight
LastAlone ==
  IF \E d \in Slots : reqs[d].pc = "done" /\ reqs[d].solo
  THEN Summary(reqs[CHOOSE d \in Slots : reqs[d].pc = "done" /\ reqs[d].solo])
  ELSE NoPrev

\* a request arrives in the first free slot; the records of ended requests are
\* dropped.  History fields: the tables as the request found them (g0, m0, e0),
\* whether it has been alone in flight (solo), and the request that ran alone
\* and ended just before it (pred)
Arrive(c, r) ==
  /\ ~Active(reqs[c])
  /\ \A d \in Slots : d < c => Active(reqs[d])
  /\ started < MaxReqs
  /\ started' = started + 1
  /\ reqs' = [d \in Slots |->
                IF d = c
                THEN [r EXCEPT !.g0 = groups, !.m0 = memberships, !.e0 = Len(events),
                               !.solo = \A x \in Slots \ {c} : ~Active(reqs[x]),
                               !.pred = IF \A x \in Slots \ {c} : ~Active(reqs[x])
                                        THEN LastAlone ELSE NoPrev]
                ELSE IF Active(reqs[d]) THEN [reqs[d] EXCEPT !.solo = FALSE] ELSE Idle]
  /\ UNCHANGED <<groups, memberships, events, env>>

(* ---------------------------- groups.info ----------------------------- *)

InfoStart(c, actor, id) ==
  Arrive(c, [Idle EXCEPT !.kind = "info", !.pc = "fetch", !.actor = actor, !.id = id])

\* the mutant of Present: the creator is given for the team
PresentCreator(gs, g) == [name |-> gs[g].name, teamId |-> gs[g].createdById]

\* presentGroup(group), as far as the group's own columns go
Present(gs, g) == [name |-> gs[g].name, teamId |-> gs[g].teamId]

\* Group.findByPk(id) and authorize(user, "read", group)
InfoStatus(gs, actor, id) == Authorize(actor, "read", Handle(gs, id) # NoHandle)

InfoFetch(c) ==
  LET r == reqs[c]
      a == InfoStatus(groups, r.actor, r.id)
  IN /\ r.kind = "info" /\ r.pc = "fetch"
     /\ Put(c, [Finish(r, a) EXCEPT
                    !.body = IF a = "ok" THEN Present(groups, r.id) ELSE NoBody])
     /\ UNCHANGED <<groups, memberships, events, env, started>>

(* --------------------------- groups.create ---------------------------- *)

FreeIds == {g \in GroupIds : groups[g].state = "none"}

Min(S) == CHOOSE x \in S : \A y \in S : x <= y

CreateStart(c, actor, name) ==
  /\ Cardinality(FreeIds) >
       Cardinality({d \in Slots : reqs[d].kind = "create" /\ reqs[d].pc = "create"})
  /\ Arrive(c, [Idle EXCEPT !.kind = "create", !.pc = "create", !.actor = actor,
                            !.name = name])

\* Group.create({name, teamId, createdById})
Insert(gs, g, name, actor) ==
  [gs EXCEPT ![g] = [state |-> "live", name |-> name, teamId |-> TeamOf(actor),
                     createdById |-> actor, updatedAt |-> 0]]

CreateInsert(c) ==
  LET r == reqs[c]
      a == Authorize(r.actor, "createGroup", TRUE)
      g == Min(FreeIds)
  IN /\ r.kind = "create" /\ r.pc = "create"
     /\ IF a # "ok"
        THEN /\ Put(c, Finish(r, a))
             /\ UNCHANGED groups
        ELSE /\ groups' = Insert(groups, g, r.name, r.actor)
             /\ Put(c, [r EXCEPT !.pc = "reload", !.id = g])
     /\ UNCHANGED <<memberships, events, env, started>>

CreateReload(c) ==
  LET r == reqs[c]
      h == Handle(groups, r.id)
  IN /\ r.kind = "create" /\ r.pc = "reload"
     /\ IF h = NoHandle
        THEN Put(c, Finish(r, "NotFound"))
        ELSE Put(c, [r EXCEPT !.pc = "event", !.group = h])
     /\ UNCHANGED <<groups, memberships, events, env, started>>

CreateEvent(c) ==
  LET r == reqs[c]
      evs == Append(events, Ev("groups.create", r.actor, r.group.id, NULL, r.group.name))
  IN /\ r.kind = "create" /\ r.pc = "event"
     /\ events' = evs
     /\ Put(c, [Finish(r, "ok") EXCEPT
                    !.body = [name |-> r.group.name, teamId |-> groups[r.id].teamId]])
     /\ UNCHANGED <<groups, memberships, env, started>>

(* --------------------------- groups.update ---------------------------- *)

UpdateStart(c, actor, id, name) ==
  Arrive(c, [Idle EXCEPT !.kind = "update", !.pc = "fetch", !.actor = actor,
                         !.id = id, !.name = name])

UpdateFetch(c) ==
  LET r == reqs[c]
      h == Handle(groups, r.id)
      a == Authorize(r.actor, "update", h # NoHandle)
      h2 == SetName(h, r.name)
  IN /\ r.kind = "update" /\ r.pc = "fetch"
     /\ IF a # "ok"
        THEN Put(c, Finish(r, a))
        ELSE IF Changed(h2)
             THEN Put(c, [r EXCEPT !.pc = "save", !.group = h2])
             ELSE Put(c, Finish(r, "ok"))
     /\ UNCHANGED <<groups, memberships, events, env, started>>

UpdateSave(c) ==
  LET r == reqs[c]
  IN /\ r.kind = "update" /\ r.pc = "save"
     /\ groups' = Save(groups, r.group)
     /\ Put(c, [r EXCEPT !.pc = "event", !.group.dirty = {}])
     /\ UNCHANGED <<memberships, events, env, started>>

UpdateEvent(c) ==
  LET r == reqs[c]
      evs == Append(events, Ev("groups.update", r.actor, r.group.id, NULL, r.name))
  IN /\ r.kind = "update" /\ r.pc = "event"
     /\ events' = evs
     /\ Put(c, Finish(r, "ok"))
     /\ UNCHANGED <<groups, memberships, env, started>>

(* --------------------------- groups.delete ---------------------------- *)

DeleteStart(c, actor, id) ==
  Arrive(c, [Idle EXCEPT !.kind = "delete", !.pc = "fetch", !.actor = actor, !.id = id])

DeleteFetch(c) ==
  LET r == reqs[c]
      h == Handle(groups, r.id)
      a == Authorize(r.actor, "delete", h # NoHandle)
  IN /\ r.kind = "delete" /\ r.pc = "fetch"
     /\ IF a # "ok"
        THEN Put(c, Finish(r, a))
        ELSE Put(c, [r EXCEPT !.pc = "destroy", !.group = h])
     /\ UNCHANGED <<groups, memberships, events, env, started>>

\* group.destroy(): the row is gone for every later lookup
Destroy(gs, g) == [gs EXCEPT ![g].state = "deleted"]

\* the cascade of group.destroy(): the memberships of the group go with it
Cascade(ms, g) == Without(ms, GroupBag(ms, g))

DeleteDestroy(c) ==
  LET r == reqs[c]
  IN /\ r.kind = "delete" /\ r.pc = "destroy"
     /\ groups' = Destroy(groups, r.group.id)
     /\ memberships' = Cascade(memberships, r.group.id)
     /\ Put(c, [r EXCEPT !.pc = "event"])
     /\ UNCHANGED <<events, env, started>>

DeleteEvent(c) ==
  LET r == reqs[c]
      evs == Append(events, Ev("groups.delete", r.actor, r.group.id, NULL, r.group.name))
  IN /\ r.kind = "delete" /\ r.pc = "event"
     /\ events' = evs
     /\ Put(c, Finish(r, "ok"))
     /\ UNCHANGED <<groups, memberships, env, started>>

(* -------------------------- groups.add_user --------------------------- *)

AddUserStart(c, actor, id, userId) ==
  Arrive(c, [Idle EXCEPT !.kind = "add_user", !.pc = "fetch", !.actor = actor,
                         !.id = id, !.userId = userId])

\* the user and its read check, then the group and its update check
AddUserFetch(c) ==
  LET r == reqs[c]
      a1 == Authorize(r.actor, "read", FindUser(r.userId) # NULL)
      h == Handle(groups, r.id)
      a2 == Authorize(r.actor, "update", h # NoHandle)
  IN /\ r.kind = "add_user" /\ r.pc = "fetch"
     /\ IF a1 # "ok" THEN Put(c, Finish(r, a1))
        ELSE IF a2 # "ok" THEN Put(c, Finish(r, a2))
        ELSE Put(c, [r EXCEPT !.pc = "find", !.group = h])
     /\ UNCHANGED <<groups, memberships, events, env, started>>

\* GroupUser.findOne, and the test of the result
AddUserFind(c) ==
  LET r == reqs[c]
  IN /\ r.kind = "add_user" /\ r.pc = "find"
     /\ \E m \in FindOne(memberships, r.id, r.userId) :
          IF Missing(m)
          THEN Put(c, [r EXCEPT !.pc = "addFind"])
          ELSE Put(c, Finish(r, "ok"))
     /\ UNCHANGED <<groups, memberships, events, env, started>>

\* group.$add, first half: the association looks up the rows of the pair
AddUserAssocFind(c) ==
  LET r == reqs[c]
  IN /\ r.kind = "add_user" /\ r.pc = "addFind"
     /\ \E cur \in FindOne(memberships, r.group.id, r.userId) :
          Put(c, [r EXCEPT !.pc = "addWrite", !.cur = cur])
     /\ UNCHANGED <<groups, memberships, events, env, started>>

\* group.$add, second half
AddUserAssocWrite(c) ==
  LET r == reqs[c]
  IN /\ r.kind = "add_user" /\ r.pc = "addWrite"
     /\ memberships' = AddAssoc(memberships, r.group.id, r.userId, r.actor, r.cur)
     /\ Put(c, [r EXCEPT !.pc = "reloadM", !.cur = NoRow])
     /\ UNCHANGED <<groups, events, env, started>>

\* GroupUser.findOne({..., rejectOnEmpty: true})
AddUserReloadM(c) ==
  LET r == reqs[c]
  IN /\ r.kind = "add_user" /\ r.pc = "reloadM"
     /\ \E m \in FindOne(memberships, r.id, r.userId) :
          IF m = NoRow
          THEN Put(c, Finish(r, "NotFound"))
          ELSE Put(c, [r EXCEPT !.pc = "reloadG", !.membership = m])
     /\ UNCHANGED <<groups, memberships, events, env, started>>

\* Group.findByPk(id, {rejectOnEmpty: true})
AddUserReloadG(c) ==
  LET r == reqs[c]
      h == Handle(groups, r.id)
  IN /\ r.kind = "add_user" /\ r.pc = "reloadG"
     /\ IF h = NoHandle
        THEN Put(c, Finish(r, "NotFound"))
        ELSE Put(c, [r EXCEPT !.pc = "event", !.group = h])
     /\ UNCHANGED <<groups, memberships, events, env, started>>

AddUserEvent(c) ==
  LET r == reqs[c]
      evs == Append(events, Ev("groups.add_user", r.actor, r.group.id, r.userId,
                               NameOf(r.userId)))
  IN /\ r.kind = "add_user" /\ r.pc = "event"
     /\ events' = evs
     /\ Put(c, Finish(r, "ok"))
     /\ UNCHANGED <<groups, memberships, env, started>>

(* ------------------------- groups.remove_user ------------------------- *)

RemoveUserStart(c, actor, id, userId) ==
  Arrive(c, [Idle EXCEPT !.kind = "remove_user", !.pc = "fetch", !.actor = actor,
                         !.id = id, !.userId = userId])

\* the group and its update check, then the user and its read check
RemoveUserFetch(c) ==
  LET r == reqs[c]
      h == Handle(groups, r.id)
      a1 == Authorize(r.actor, "update", h # NoHandle)
      a2 == Authorize(r.actor, "read", FindUser(r.userId) # NULL)
  IN /\ r.kind = "remove_user" /\ r.pc = "fetch"
     /\ IF a1 # "ok" THEN Put(c, Finish(r, a1))
        ELSE IF a2 # "ok" THEN Put(c, Finish(r, a2))
        ELSE Put(c, [r EXCEPT !.pc = "remove", !.group = h])
     /\ UNCHANGED <<groups, memberships, events, env, started>>

RemoveUserDestroy(c) ==
  LET r == reqs[c]
  IN /\ r.kind = "remove_user" /\ r.pc = "remove"
     /\ memberships' = RemoveAssoc(memberships, r.group.id, r.userId)
     /\ Put(c, [r EXCEPT !.pc = "event"])
     /\ UNCHANGED <<groups, events, env, started>>

RemoveUserEvent(c) ==
  LET r == reqs[c]
  IN /\ r.kind = "remove_user" /\ r.pc = "event"
     /\ events' = Append(events, Ev("groups.remove_user", r.actor, r.group.id,
                                    r.userId, NameOf(r.userId)))
     /\ Put(c, [r EXCEPT !.pc = "reloadG"])
     /\ UNCHANGED <<groups, memberships, env, started>>

RemoveUserReloadG(c) ==
  LET r == reqs[c]
      h == Handle(groups, r.id)
  IN /\ r.kind = "remove_user" /\ r.pc = "reloadG"
     /\ Put(c, Finish(r, IF h = NoHandle THEN "NotFound" ELSE "ok"))
     /\ UNCHANGED <<groups, memberships, events, env, started>>

(* ----------------- PATCH groups/:id (provisioning sync) --------------- *)

\* ops is the Operations list of the body; op and emails are what the handler
\* reads of it, wherever it does
PatchStart(c, id, ops) ==
  Arrive(c, [Idle EXCEPT !.kind = "patch", !.pc = "findGroup", !.id = id, !.ops = ops,
                         !.op = Operations0(ops).op,
                         !.emails = Operations0(ops).value])

\* arrayUsers.map throws on the null of a malformed body, before any lookup;
\* otherwise Group.findOne({where: {id}, rejectOnEmpty: true})
PatchFindGroup(c) ==
  LET r == reqs[c]
      h == Handle(groups, r.id)
  IN /\ r.kind = "patch" /\ r.pc = "findGroup"
     /\ IF MapThrows(r.ops) THEN Put(c, Finish(r, "Error"))
        ELSE IF h = NoHandle THEN Put(c, Finish(r, "NotFound"))
        ELSE Put(c, [r EXCEPT !.pc = "findGroupUsers", !.group = h])
     /\ UNCHANGED <<groups, memberships, events, env, started>>

\* the group of the answer: the handle the handler holds, as the response
\* serialises it
Answer(h, gs) == [name |-> h.name, teamId |-> gs[h.id].teamId]

NewTask == [pc |-> "find", membership |-> NoRow, cur |-> NoRow]

Finished(t) == t.pc \in {"done", "failed"}

\* GroupUser.findOne({where: {groupId}}), User.findAll, and the dispatch of one
\* task per resolved user when the group is there and DESK_UUID is set
PatchFindGroupUsers(c) ==
  LET r == reqs[c]
      users == Resolve(r.emails)
  IN /\ r.kind = "patch" /\ r.pc = "findGroupUsers"
     /\ \E gu \in FindOneOfGroup(memberships, r.id) :
          IF AuthorId(env) # NULL /\ users # {}
          THEN Put(c, [r EXCEPT !.pc = "tasks", !.groupUsers = gu, !.users = users,
                                     !.tasks = [u \in users |-> NewTask]])
          ELSE Put(c, [Finish(r, "ok") EXCEPT !.users = users,
                                              !.body = Answer(r.group, groups)])
     /\ UNCHANGED <<groups, memberships, events, env, started>>

\* the test of line 421, reached from every path of the callback that goes on
RemoveOrDone(op, m) == IF op = "remove" /\ ~Missing(m) THEN "remove" ELSE "done"

\* One step of the callback for user u of request r: the awaited call at the
\* task's pc completes (m is what a membership lookup returns there) and the
\* code runs on to the next await.  The result holds the task, the tables, the
\* shared group handle and groupUsers after the step.
TaskEffect(r, u, m, gs, ms, evs, authorId) ==
  LET t == r.tasks[u]
      same == [task |-> t, gs |-> gs, ms |-> ms, evs |-> evs,
               group |-> r.group, groupUsers |-> r.groupUsers]
  IN CASE t.pc = "find" ->
            [same EXCEPT !.task = [t EXCEPT !.membership = m,
                                            !.pc = IF Missing(m) /\ r.op = "add"
                                                   THEN "addFind"
                                                   ELSE RemoveOrDone(r.op, m)]]
       [] t.pc = "addFind" ->
            [same EXCEPT !.task = [t EXCEPT !.cur = m, !.pc = "addWrite"]]
       [] t.pc = "addWrite" ->
            [same EXCEPT !.ms = AddAssoc(ms, r.group.id, u, authorId, t.cur),
                         !.task = [t EXCEPT !.cur = NoRow,
                                            !.pc = IF Changed(r.group)
                                                   THEN "addSave"
                                                   ELSE RemoveOrDone(r.op, t.membership)]]
       [] t.pc = "addSave" ->
            [same EXCEPT !.gs = Save(gs, r.group),
                         !.group = [r.group EXCEPT !.dirty = {}],
                         !.task = [t EXCEPT !.pc = "addEvent"]]
       [] t.pc = "addEvent" ->
            [same EXCEPT !.evs = Append(evs, Ev("groups.add_user", authorId,
                                                r.group.id, u, NameOf(u))),
                         !.task = [t EXCEPT !.pc = "addReloadM"]]
       [] t.pc = "addReloadM" ->
            [same EXCEPT !.groupUsers = m,
                         !.task = [t EXCEPT !.membership = m, !.pc = "addReloadG"]]
       [] t.pc = "addReloadG" ->
            IF Handle(gs, r.group.id) = NoHandle
            THEN [same EXCEPT !.task = [t EXCEPT !.pc = "failed"]]
            ELSE [same EXCEPT !.group = Handle(gs, r.group.id),
                              !.task = [t EXCEPT !.pc = RemoveOrDone(r.op, t.membership)]]
       [] t.pc = "remove" ->
            [same EXCEPT !.ms = RemoveAssoc(ms, r.group.id, u),
                         !.task = [t EXCEPT !.pc = IF Changed(r.group)
                                                   THEN "remSave" ELSE "done"]]
       [] t.pc = "remSave" ->
            [same EXCEPT !.gs = Save(gs, r.group),
                         !.group = [r.group EXCEPT !.dirty = {}],
                         !.task = [t EXCEPT !.pc = "remEvent"]]
       [] t.pc = "remEvent" ->
            [same EXCEPT !.evs = Append(evs, Ev("groups.remove_user", authorId,
                                                r.group.id, u, NameOf(u))),
                         !.task = [t EXCEPT !.pc = "remReloadM"]]
       [] t.pc = "remReloadM" ->
            [same EXCEPT !.groupUsers = m,
                         !.task = [t EXCEPT !.membership = m, !.pc = "remReloadG"]]
       [] t.pc = "remReloadG" ->
            IF Handle(gs, r.group.id) = NoHandle
            THEN [same EXCEPT !.task = [t EXCEPT !.pc = "failed"]]
            ELSE [same EXCEPT !.group = Handle(gs, r.group.id),
                              !.task = [t EXCEPT !.pc = "done"]]

\* the lookups a task step may see: the rows of the pair where the step is a
\* membership lookup, nothing elsewhere
TaskLookups(r, u, ms) ==
  IF r.tasks[u].pc \in {"find", "addFind", "addReloadM", "remReloadM"}
  THEN FindOne(ms, r.id, u)
  ELSE {NoRow}

\* the mutant of Settle: the failure of a task is swallowed
SettleOk(c, r) ==
  IF \A u \in r.users : Finished(r.tasks[u])
  THEN Put(c, [Finish(r, "ok") EXCEPT !.body = Answer(r.group, groups)])
  ELSE Put(c, r)

\* Promise.all: the request answers ok when every task has run to its end, and
\* fails when one failed; the other tasks run on either way
Settle(c, r) ==
  IF \A u \in r.users : Finished(r.tasks[u])
  THEN IF \E u \in r.users : r.tasks[u].pc = "failed"
       THEN Put(c, Finish(r, "Error"))
       ELSE Put(c, [Finish(r, "ok") EXCEPT !.body = Answer(r.group, groups)])
  ELSE Put(c, r)

TaskStep(c, u) ==
  LET r == reqs[c]
  IN /\ r.kind = "patch" /\ r.pc = "tasks"
     /\ u \in r.users /\ ~Finished(r.tasks[u])
     /\ \E m \in TaskLookups(r, u, memberships) :
          LET e == TaskEffect(r, u, m, groups, memberships, events, AuthorId(env))
          IN /\ groups' = e.gs
             /\ memberships' = e.ms
             /\ events' = e.evs
             /\ Settle(c, [r EXCEPT !.tasks[u] = e.task, !.group = e.group,
                                    !.groupUsers = e.groupUsers])
     /\ UNCHANGED <<env, started>>

(* ------------------------- storage failures --------------------------- *)

\* the storage call a handler is waiting for throws: the request fails there
StorageFail(c) ==
  LET r == reqs[c]
  IN /\ Active(r) /\ r.pc # "tasks"
     /\ Put(c, Finish(r, "Error"))
     /\ UNCHANGED <<groups, memberships, events, env, started>>

\* the same inside one task of a provisioning sync
TaskFail(c, u) ==
  LET r == reqs[c]
  IN /\ r.kind = "patch" /\ r.pc = "tasks"
     /\ u \in r.users /\ ~Finished(r.tasks[u])
     /\ Settle(c, [r EXCEPT !.tasks[u].pc = "failed"])
     /\ UNCHANGED <<groups, memberships, events, env, started>>

(* --------------------------- specification ---------------------------- *)

\* The requests tried.  Valid requests come with every argument that matters
\* to them; a denied actor (u2 is no admin), an absent user (u0) and a group id
\* that names no row until create hands it out (2) are each tried on arguments
\* that are valid otherwise.
InfoInputs == {<<"u2", id>> : id \in GroupIds}
CreateInputs == {<<"u1", "A">>, <<"u1", "B">>, <<"u2", "B">>}
UpdateInputs == {<<"u1", 1, "A">>, <<"u1", 1, "B">>, <<"u2", 1, "B">>, <<"u1", 2, "A">>}
DeleteInputs == {<<"u1", 1>>, <<"u2", 1>>, <<"u1", 2>>}
MemberInputs == {<<"u1", 1, "u1">>, <<"u1", 1, "u2">>, <<"u2", 1, "u1">>,
                 <<"u1", 2, "u2">>, <<"u1", 1, "u0">>}
\* Provisioning bodies: one operation over each address list; an op that is
\* neither add nor remove; an absent group; two operations; no Operations list
\* (on a group that is not there); a first operation without a value array
PatchInputs ==
  {<<1, One(op, emails)>> : op \in {"add", "remove"}, emails \in EmailLists}
    \cup {<<1, One("replace", {"e1", "e2"})>>, <<2, One("add", {"e1", "e2"})>>,
          <<1, One("add", {"e1", "e2"}) \o One("remove", {"e1"})>>,
          <<2, << >> >>, <<1, <<[NoOperation EXCEPT !.op = "add"]>> >>}

Next ==
  \/ \E c \in Slots, i \in InfoInputs : InfoStart(c, i[1], i[2])
  \/ \E c \in Slots : InfoFetch(c)
  \/ \E c \in Slots, i \in CreateInputs : CreateStart(c, i[1], i[2])
  \/ \E c \in Slots : CreateInsert(c)
  \/ \E c \in Slots : CreateReload(c)
  \/ \E c \in Slots : CreateEvent(c)
  \/ \E c \in Slots, i \in UpdateInputs : UpdateStart(c, i[1], i[2], i[3])
  \/ \E c \in Slots : UpdateFetch(c)
  \/ \E c \in Slots : UpdateSave(c)
  \/ \E c \in Slots : UpdateEvent(c)
  \/ \E c \in Slots, i \in DeleteInputs : DeleteStart(c, i[1], i[2])
  \/ \E c \in Slots : DeleteFetch(c)
  \/ \E c \in Slots : DeleteDestroy(c)
  \/ \E c \in Slots : DeleteEvent(c)
  \/ \E c \in Slots, i \in MemberInputs : AddUserStart(c, i[1], i[2], i[3])
  \/ \E c \in Slots : AddUserFetch(c)
  \/ \E c \in Slots : AddUserFind(c)
  \/ \E c \in Slots : AddUserAssocFind(c)
  \/ \E c \in Slots : AddUserAssocWrite(c)
  \/ \E c \in Slots : AddUserReloadM(c)
  \/ \E c \in Slots : AddUserReloadG(c)
  \/ \E c \in Slots : AddUserEvent(c)
  \/ \E c \in Slots, i \in MemberInputs : RemoveUserStart(c, i[1], i[2], i[3])
  \/ \E c \in Slots : RemoveUserFetch(c)
  \/ \E c \in Slots : RemoveUserDestroy(c)
  \/ \E c \in Slots : RemoveUserEvent(c)
  \/ \E c \in Slots : RemoveUserReloadG(c)
  \/ \E c \in Slots, i \in PatchInputs : PatchStart(c, i[1], i[2])
  \/ \E c \in Slots : PatchFindGroup(c)
  \/ \E c \in Slots : PatchFindGroupUsers(c)
  \/ \E c \in Slots, u \in Users : TaskStep(c, u)
  \/ \E c \in Slots : StorageFail(c)
  \/ \E c \in Slots, u \in Users : TaskFail(c, u)

Spec == Init /\ [][Next]_vars

(* ------------------------------ claims -------------------------------- *)

\* the request of slot c has ended, and no other request has been in flight
\* since it arrived: what the tables show against g0, m0, e0 is its own doing
Alone(c) == reqs[c].pc = "done" /\ reqs[c].solo

\* the events appended after the first n that are about user u of group g
MemberEvents(n, name, g, u) ==
  {i \in (n + 1) .. Len(events) :
     events[i].name = name /\ events[i].modelId = g /\ events[i].userId = u}

\* the events appended after the first n that are about group g itself
GroupEvents(n, name, g) ==
  {i \in (n + 1) .. Len(events) : events[i].name = name /\ events[i].modelId = g}

\* a second groups.add_user for the pair of the groups.add_user that ran just
\* before it, which found the pair without a membership; both answered ok
SecondAddUser(c) ==
  LET r == reqs[c]
      p == r.pred
  IN /\ Alone(c) /\ r.kind = "add_user" /\ r.status = "ok"
     /\ p.kind = "add_user" /\ p.status = "ok"
     /\ p.id = r.id /\ p.userId = r.userId
     /\ RowCount(p.m0, r.id, r.userId) = 0

\* C1: groups.add_user called twice in sequence for one (group, user), starting
\* from no membership, leaves exactly one membership row of the pair and
\* exactly one groups.add_user event for it; the second call creates no row
\* and appends no event.
C1_AddUserTwice ==
  \A c \in Slots :
    SecondAddUser(c) =>
      LET r == reqs[c]
      IN /\ RowCount(memberships, r.id, r.userId) = 1
         /\ Cardinality(MemberEvents(r.pred.e0, "groups.add_user", r.id, r.userId)) = 1
         /\ memberships = r.m0
         /\ Len(events) = r.e0

C1_Witness == \E c \in Slots : SecondAddUser(c)

\* C2: in every reachable state, whatever the interleaving of groups.add_user,
\* groups.remove_user and provisioning syncs, a (group, user) pair has at most
\* one membership row.
C2_OneRowPerPair ==
  \A g \in GroupIds, u \in Users : RowCount(memberships, g, u) <= 1

\* a provisioning sync that ran alone with DESK_UUID set and answered ok
SyncDone(c, op) ==
  /\ Alone(c) /\ reqs[c].kind = "patch" /\ reqs[c].status = "ok"
  /\ reqs[c].op = op /\ env = DeskId

\* C3: a provisioning sync with op "add" on a group without members creates one
\* membership per resolved user, created by the provisioning actor, and appends
\* one groups.add_user event per membership created; addresses that resolve to
\* no user give no membership, no event and no error.
C3_SyncAdd ==
  \A c \in Slots :
    LET r == reqs[c]
    IN (SyncDone(c, "add") /\ GroupBag(r.m0, r.id) = EmptyBag) =>
         /\ memberships = r.m0 (+) SetToBag({Row(r.id, u, env) : u \in r.users})
         /\ Len(events) = r.e0 + Cardinality(r.users)
         /\ \A u \in r.users :
              \E i \in (r.e0 + 1) .. Len(events) :
                events[i] = Ev("groups.add_user", env, r.id, u, NameOf(u))

\* C4: a provisioning sync with op "remove" removes the membership of every
\* resolved user that has one and appends one groups.remove_user event, with
\* the provisioning actor as actor, for that user.
C4_SyncRemove ==
  \A c \in Slots :
    LET r == reqs[c]
    IN SyncDone(c, "remove") =>
         \A u \in r.users :
           RowCount(r.m0, r.id, u) > 0 =>
             /\ RowCount(memberships, r.id, u) = 0
             /\ Cardinality(MemberEvents(r.e0, "groups.remove_user", r.id, u)) = 1
             /\ \A i \in MemberEvents(r.e0, "groups.remove_user", r.id, u) :
                  events[i].actorId = env

\* C5: every completed operation that changes a group row or a membership row
\* appends exactly one audit event for that change: one groups.add_user event
\* per membership created, one groups.remove_user event per membership removed
\* by a removal, one groups.create, groups.update or groups.delete event for
\* the group row.
C5_OneEventPerChange ==
  \A c \in Slots :
    LET r == reqs[c]
    IN (Alone(c) /\ r.status = "ok") =>
         /\ \A g \in GroupIds, u \in Users :
              /\ RowCount(memberships, g, u) > RowCount(r.m0, g, u) =>
                   Cardinality(MemberEvents(r.e0, "groups.add_user", g, u)) = 1
              /\ (RowCount(memberships, g, u) < RowCount(r.m0, g, u)
                    /\ r.kind # "delete") =>
                   Cardinality(MemberEvents(r.e0, "groups.remove_user", g, u)) = 1
         /\ \A g \in GroupIds :
              groups[g] # r.g0[g] =>
                Cardinality(GroupEvents(r.e0, "groups." \o r.kind, g)) = 1

\* a groups.update that ran alone and answered ok
UpdateDone(c) == Alone(c) /\ reqs[c].kind = "update" /\ reqs[c].status = "ok"

\* C6: groups.update with the persisted name writes nothing and appends no
\* event; with another name it writes the name and appends exactly one
\* groups.update event whose data.name is the new name.
C6_UpdateChangeDetection ==
  \A c \in Slots :
    LET r == reqs[c]
    IN UpdateDone(c) =>
         IF r.name = r.g0[r.id].name
         THEN groups = r.g0 /\ Len(events) = r.e0
         ELSE /\ groups = [r.g0 EXCEPT ![r.id].name = r.name,
                                       ![r.id].updatedAt = @ + 1]
              /\ Len(events) = r.e0 + 1
              /\ events[Len(events)] = Ev("groups.update", r.actor, r.id, NULL, r.name)

\* an update with the persisted name, which the update before it had written
C6_Witness ==
  \E c \in Slots :
    /\ UpdateDone(c)
    /\ reqs[c].name = reqs[c].g0[reqs[c].id].name
    /\ reqs[c].pred.kind = "update" /\ reqs[c].pred.status = "ok"
    /\ reqs[c].g0[reqs[c].id].updatedAt = 1

\* a groups.remove_user that ran alone and answered ok, for a pair without a
\* membership
RemoveNothing(c) ==
  /\ Alone(c) /\ reqs[c].kind = "remove_user" /\ reqs[c].status = "ok"
  /\ RowCount(reqs[c].m0, reqs[c].id, reqs[c].userId) = 0

\* C7: groups.remove_user on a pair without a membership leaves the memberships
\* as they were and still appends exactly one groups.remove_user event.
C7_RemoveUserNoMembership ==
  \A c \in Slots :
    LET r == reqs[c]
    IN RemoveNothing(c) =>
         /\ memberships = r.m0
         /\ Len(events) = r.e0 + 1
         /\ events[Len(events)] =
              Ev("groups.remove_user", r.actor, r.id, r.userId, NameOf(r.userId))

\* the same with another user being a member of the group
C7_Witness ==
  \E c \in Slots : RemoveNothing(c) /\ GroupBag(reqs[c].m0, reqs[c].id) # EmptyBag

\* C8: once groups.delete has succeeded on a group, the group is gone, no
\* membership row carries its id, and groups.info on it fails with NotFound.
C8_DeleteCascades ==
  \A c \in Slots :
    LET r == reqs[c]
    IN (r.pc = "done" /\ r.kind = "delete" /\ r.status = "ok") =>
         /\ groups[r.id].state # "live"
         /\ GroupBag(memberships, r.id) = EmptyBag
         /\ \A a \in Users : InfoStatus(groups, a, r.id) = "NotFound"

\* what C8 says of a delete that no other request overlapped
C8_DeleteAlone ==
  \A c \in Slots :
    LET r == reqs[c]
    IN (Alone(c) /\ r.kind = "delete" /\ r.status = "ok") =>
         /\ groups[r.id].state # "live"
         /\ GroupBag(memberships, r.id) = EmptyBag
         /\ \A a \in Users : InfoStatus(groups, a, r.id) = "NotFound"

\* C9: in a provisioning sync, op "add" for a user that is a member and op
\* "remove" for a user that is none change nothing for that user: its
\* membership rows stay as they were and no event about it is appended.
C9_SyncNoOps ==
  \A c \in Slots :
    LET r == reqs[c]
    IN \A op \in {"add", "remove"} :
         SyncDone(c, op) =>
           \A u \in r.users :
             ((op = "add") = (RowCount(r.m0, r.id, u) > 0)) =>
               /\ PairBag(memberships, r.id, u) = PairBag(r.m0, r.id, u)
               /\ \A i \in (r.e0 + 1) .. Len(events) : events[i].userId # u

\* an "add" for a member whose row another actor created
C9_Witness ==
  \E c \in Slots :
    /\ SyncDone(c, "add")
    /\ \E u \in reqs[c].users :
         RowCount(reqs[c].m0, reqs[c].id, u) > 0
           /\ Row(reqs[c].id, u, env) \notin BagToSet(reqs[c].m0)

\* C10: a create, update, delete, add_user or remove_user request that fails,
\* at whatever step, leaves none of its writes to the groups and memberships
\* behind.
C10_AllOrNothing ==
  \A c \in Slots :
    LET r == reqs[c]
    IN (Alone(c) /\ r.kind \in SingleEntity /\ r.status # "ok") =>
         groups = r.g0 /\ memberships = r.m0

\* a groups.info that ran alone on the group that the groups.create which ran
\* alone just before it had made
InfoAfterCreate(c) ==
  LET r == reqs[c]
  IN /\ Alone(c) /\ r.kind = "info" /\ r.status # "Error"
     /\ r.pred.kind = "create" /\ r.pred.status = "ok" /\ r.pred.id = r.id

\* C11: groups.info on a group that groups.create has just made answers with
\* the name given to create and the team of the actor of create, and create has
\* appended one groups.create event, which carries that name.
C11_InfoAfterCreate ==
  \A c \in Slots :
    LET r == reqs[c]
        p == r.pred
    IN InfoAfterCreate(c) =>
         /\ r.status = "ok"
         /\ r.body = [name |-> p.name, teamId |-> TeamOf(p.actor)]
         /\ Cardinality(GroupEvents(p.e0, "groups.create", r.id)) = 1
         /\ \A i \in GroupEvents(p.e0, "groups.create", r.id) :
              events[i] = Ev("groups.create", p.actor, r.id, NULL, p.name)

\* the same for a group whose name is not the one of the seeded group
C11_Witness ==
  \E c \in Slots : InfoAfterCreate(c) /\ reqs[c].pred.name = "B"

\* the task is between its call of group.$add or group.$remove and the end of
\* the branch that call opens, where the re-fetched group is assigned
InHandleWrite(t) ==
  t.pc \in {"addFind", "addWrite", "addSave", "addEvent", "addReloadM", "addReloadG",
            "remove", "remSave", "remEvent", "remReloadM", "remReloadG"}

\* C12: in a provisioning sync, at most one task at a time is between its
\* mutation through the shared group handle and the end of the branch that
\* reassigns the handle.
C12_HandleSerialized ==
  \A c \in Slots :
    reqs[c].pc = "tasks" =>
      Cardinality({u \in reqs[c].users : InHandleWrite(reqs[c].tasks[u])}) <= 1

\* the users with a membership row of group g
Members(ms, g) == {u \in Users : RowCount(ms, g, u) > 0}

\* a provisioning sync over two resolved users whose tasks ran, alone, to the end
SyncOfTwo(c, op) == SyncDone(c, op) /\ Cardinality(reqs[c].users) = 2

\* C13: whatever the interleaving of the tasks of a provisioning sync over
\* distinct resolved users, the members of the group are in the end the prior
\* members with the resolved users added (op "add") or taken away (op
\* "remove"), and the audit events appended are the same: none.
C13_SyncInterleavings ==
  \A c \in Slots :
    LET r == reqs[c]
    IN /\ SyncOfTwo(c, "add") =>
            /\ Members(memberships, r.id) = Members(r.m0, r.id) \cup r.users
            /\ Len(events) = r.e0
       /\ SyncOfTwo(c, "remove") =>
            /\ Members(memberships, r.id) = Members(r.m0, r.id) \ r.users
            /\ Len(events) = r.e0

\* an "add" of two users to a group without members
C13_Witness ==
  \E c \in Slots : SyncOfTwo(c, "add") /\ Members(reqs[c].m0, reqs[c].id) = {}

\* what the request asks for cannot be granted: its actor is no admin, or the
\* group it names was not there when it arrived, or the user it names is in
\* no row of the users table
Refused(r) ==
  \/ r.actor \notin Admins
  \/ r.kind \in {"update", "delete", "add_user", "remove_user"}
       /\ r.g0[r.id].state # "live"
  \/ r.kind \in {"add_user", "remove_user"} /\ r.userId \notin Users

\* the steps of the single-entity handlers that come after their authorize calls
AfterAuthorize(r) ==
  /\ r.kind \in SingleEntity
  /\ r.pc \notin {"idle", "done", "fetch", "create"}

\* C14: a create, update, delete, add_user or remove_user request whose actor
\* the policy denies, or whose group or user does not exist, fails with
\* Forbidden or NotFound and leaves the groups, the memberships and the audit
\* log as they were; a request that ends Forbidden or NotFound has written
\* nothing; and no handler is past its authorize calls, where its writes are,
\* with an actor or a user that they refuse.
C14_DeniedChangesNothing ==
  \A c \in Slots :
    LET r == reqs[c]
        unchanged == groups = r.g0 /\ memberships = r.m0 /\ Len(events) = r.e0
    IN /\ (Alone(c) /\ r.kind \in SingleEntity /\ Refused(r)) =>
            r.status \in {"Forbidden", "NotFound", "Error"} /\ unchanged
       /\ (Alone(c) /\ r.kind \in SingleEntity
              /\ r.status \in {"Forbidden", "NotFound"}) => unchanged
       /\ AfterAuthorize(r) =>
            /\ r.actor \in Admins
            /\ r.kind \in {"add_user", "remove_user"} => r.userId \in Users

\* a groups.add_user for a user that does not exist, on a group with a member
C14_Witness ==
  \E c \in Slots :
    /\ Alone(c) /\ reqs[c].kind = "add_user" /\ reqs[c].userId \notin Users
    /\ reqs[c].status = "NotFound"
    /\ GroupBag(reqs[c].m0, reqs[c].id) # EmptyBag

\* a provisioning sync that repeats the one that ran just before it: the same
\* group and the same body; both ran alone and answered ok
SecondSync(c) ==
  LET r == reqs[c]
      p == r.pred
  IN /\ Alone(c) /\ r.kind = "patch" /\ r.status = "ok"
     /\ p.kind = "patch" /\ p.status = "ok"
     /\ p.id = r.id /\ p.ops = r.ops

\* C15: a provisioning sync run a second time after it completed leaves the
\* memberships as the first run left them and appends no audit event.
C15_SyncTwice ==
  \A c \in Slots :
    SecondSync(c) => memberships = reqs[c].m0 /\ Len(events) = reqs[c].e0

\* the second run of an "add" whose first run made memberships
C15_Witness ==
  \E c \in Slots :
    /\ SecondSync(c) /\ reqs[c].op = "add"
    /\ reqs[c].users # {}
    /\ reqs[c].users \subseteq Members(reqs[c].m0, reqs[c].id)
    /\ Members(reqs[c].pred.m0, reqs[c].id) = {}

\* a task of the provisioning sync of slot c has failed
TaskFailed(c) ==
  /\ reqs[c].kind = "patch" /\ reqs[c].pc = "tasks"
  /\ \E u \in reqs[c].users : reqs[c].tasks[u].pc = "failed"

\* a task of the provisioning sync of slot c fails in this step: the request
\* goes on with one more failed task, or ends with an error no earlier task made
TaskFailsNow(c) ==
  /\ reqs[c].kind = "patch" /\ reqs[c].pc = "tasks"
  /\ \/ /\ reqs'[c].pc = "done" /\ reqs'[c].status = "Error"
        /\ ~TaskFailed(c)
     \/ /\ reqs'[c].pc = "tasks"
        /\ \E u \in reqs[c].users :
             reqs[c].tasks[u].pc # "failed" /\ reqs'[c].tasks[u].pc = "failed"

\* C16: the provisioning sync spans no transaction over its tasks: the step in
\* which a task fails undoes nothing of what the tasks have written so far,
\* and a request one of whose tasks failed ends with an error.
C16_NoSyncTransaction ==
  [][\A c \in Slots :
       /\ TaskFailsNow(c) => UNCHANGED <<groups, memberships, events>>
       /\ (TaskFailed(c) /\ reqs'[c].pc = "done") => reqs'[c].status = "Error"]_vars

\* a sync that added one of its two users and failed for the other
C16_Witness ==
  \E c \in Slots :
    LET r == reqs[c]
    IN /\ Alone(c) /\ r.kind = "patch" /\ r.op = "add" /\ r.status = "Error"
       /\ Members(r.m0, r.id) = {}
       /\ Cardinality(r.users) = 2
       /\ Cardinality(Members(memberships, r.id)) = 1

\* the body has no Operations list, or its first operation has no value array
Malformed(ops) == Len(ops) = 0 \/ ~ops[1].isArray

\* C17: a provisioning PATCH with a malformed body is rejected before the first
\* storage call: the handler never holds the result of a lookup, the request
\* ends with an error, and no group, membership or audit row changes.
C17_MalformedRejected ==
  \A c \in Slots :
    LET r == reqs[c]
    IN (r.kind = "patch" /\ Malformed(r.ops)) =>
         /\ r.pc \in {"findGroup", "done"}
         /\ r.group = NoHandle /\ r.users = {}
         /\ r.pc = "done" =>
              /\ r.status = "Error"
              /\ r.solo =>
                   groups = r.g0 /\ memberships = r.m0 /\ Len(events) = r.e0

\* a first operation without a value array, sent for a group that has members
C17_Witness ==
  \E c \in Slots :
    /\ Alone(c) /\ reqs[c].kind = "patch" /\ Len(reqs[c].ops) = 1
    /\ Malformed(reqs[c].ops)
    /\ Members(reqs[c].m0, reqs[c].id) # {}

\* a provisioning sync on a group that is there, with a well-formed body, that
\* ran alone and met no storage failure
SyncRan(c) ==
  LET r == reqs[c]
  IN /\ Alone(c) /\ r.kind = "patch" /\ r.status # "Error"
     /\ ~Malformed(r.ops) /\ r.g0[r.id].state = "live"

\* C18: the outcome of a provisioning sync is that of its first operation
\* alone, whatever follows it in the Operations list: with DESK_UUID set the
\* members are the prior members plus (add) or minus (remove) the users the
\* addresses of Operations[0] resolve to, and the audit log is as it was; an op
\* that is neither add nor remove changes nothing, and the request answers ok.
C18_FirstOperationOnly ==
  \A c \in Slots :
    LET r == reqs[c]
        first == r.ops[1]
        named == {u \in Users : EmailOf(u) \in first.value}
        before == Members(r.m0, r.id)
    IN SyncRan(c) =>
         /\ r.status = "ok"
         /\ r.users = named
         /\ Len(events) = r.e0
         /\ groups = r.g0
         /\ \A g \in GroupIds \ {r.id} : GroupBag(memberships, g) = GroupBag(r.m0, g)
         /\ Members(memberships, r.id) =
              IF env # DeskId THEN before
              ELSE IF first.op = "add" THEN before \cup named
              ELSE IF first.op = "remove" THEN before \ named
              ELSE before
         /\ first.op \notin {"add", "remove"} => memberships = r.m0

\* an add of two users followed in the list by a remove of one of them
C18_Witness ==
  \E c \in Slots :
    /\ SyncRan(c) /\ env = DeskId
    /\ Len(reqs[c].ops) = 2
    /\ reqs[c].ops[1].op = "add" /\ reqs[c].ops[2].op = "remove"
    /\ Members(reqs[c].m0, reqs[c].id) = {}

\* C19: with DESK_UUID unset or empty no provisioning sync starts a task, and
\* a sync on an existing group changes no membership, appends no event and
\* answers ok with the group and the users its addresses resolve to.
C19_NoDeskId ==
  env \in {NULL, ""} =>
    \A c \in Slots :
      LET r == reqs[c]
      IN /\ r.pc # "tasks"
         /\ SyncRan(c) =>
              /\ r.status = "ok"
              /\ groups = r.g0 /\ memberships = r.m0 /\ Len(events) = r.e0
              /\ r.body = [name |-> r.g0[r.id].name, teamId |-> r.g0[r.id].teamId]
              /\ r.users = {u \in Users : EmailOf(u) \in r.emails}

\* an add of two users with DESK_UUID empty
C19_Witness ==
  \E c \in Slots :
    /\ env = "" /\ SyncRan(c)
    /\ reqs[c].op = "add" /\ Cardinality(reqs[c].users) = 2

\* a groups.add_user that ran alone for the pair of the groups.add_user that
\* ran alone just before it, which wrote the membership and then failed
RetryAddUser(c) ==
  LET r == reqs[c]
      p == r.pred
  IN /\ Alone(c) /\ r.kind = "add_user"
     /\ p.kind = "add_user" /\ p.status = "Error"
     /\ p.actor = r.actor /\ p.id = r.id /\ p.userId = r.userId
     /\ RowCount(p.m0, r.id, r.userId) = 0
     /\ RowCount(r.m0, r.id, r.userId) > 0

\* C20: when groups.add_user fails after it wrote the membership, a retry for
\* the same pair finds the membership, writes nothing, appends no event and,
\* unless storage fails, answers ok: the groups.add_user event of that
\* membership is in the log neither before nor after the retry.
C20_RetryNeverAudits ==
  \A c \in Slots :
    LET r == reqs[c]
    IN RetryAddUser(c) =>
         /\ r.status \in {"ok", "Error"}
         /\ memberships = r.m0
         /\ Len(events) = r.e0
         /\ MemberEvents(r.pred.e0, "groups.add_user", r.id, r.userId) = {}

\* such a retry that answered ok
C20_Witness ==
  \E c \in Slots : RetryAddUser(c) /\ reqs[c].status = "ok"

====
